---- MODULE Spec2Model ----
(***************************************************************************)
(* whim: the typed command-line argument parser of src/src/args.rs, its   *)
(* use by main() of src/src/main.rs, and the yes/no prompts of             *)
(* src/src/prompt.rs.                                                      *)
(*                                                                         *)
(* A string is a sequence of characters, a character is a one-element     *)
(* TLA+ string.  The character "é" stands for the characters whose UTF-8  *)
(* encoding takes two bytes: Rust's str::len counts bytes.                 *)
(***************************************************************************)
EXTENDS Integers, Sequences, FiniteSets, TLC

(***************************************************************************)
(* Bounds of the model.                                                    *)
(***************************************************************************)
\* The argument iterator yields at most MaxArgs tokens.
MaxArgs == 4

(***************************************************************************)
(* Strings (std::str).                                                     *)
(***************************************************************************)
\* The rendering of the decimal digits.
DigitChars == <<"0", "1", "2", "3", "4", "5", "6", "7", "8", "9">>

IsDigit(c) == \E d \in 1..Len(DigitChars) : DigitChars[d] = c

DigitVal(c) == (CHOOSE d \in 1..Len(DigitChars) : DigitChars[d] = c) - 1

\* The number of bytes of the UTF-8 encoding of a character.
Utf8Width(c) == IF c = "é" THEN 2 ELSE 1

RECURSIVE str_len(_)
\* str::len: the length of a string in bytes.
str_len(s) == IF s = <<>> THEN 0 ELSE Utf8Width(Head(s)) + str_len(Tail(s))

\* str::starts_with
starts_with(s, p) == Len(s) >= Len(p) /\ SubSeq(s, 1, Len(p)) = p

RECURSIVE str_replace(_, _)
\* str::replace(pat, ""): every non-overlapping match of pat, found from the
\* left, is removed.
str_replace(s, pat) ==
    IF s = <<>> THEN <<>>
    ELSE IF starts_with(s, pat) THEN str_replace(SubSeq(s, Len(pat) + 1, Len(s)), pat)
    ELSE <<Head(s)>> \o str_replace(Tail(s), pat)

(***************************************************************************)
(* Results.                                                                *)
(***************************************************************************)
Ok(v) == [ok |-> TRUE, val |-> v]

Err(e) == [ok |-> FALSE, err |-> e]

\* Error::MalformedArgument(arg)
MalformedArgument(arg) == [e |-> "MalformedArgument", arg |-> arg]

\* Error::BadFlag
BadFlag == [e |-> "BadFlag", arg |-> <<>>]

(***************************************************************************)
(* Value, Flag, Command, ArgsItem.                                         *)
(***************************************************************************)
\* Value::Bool(b)
ValueBool(b) == [vk |-> "Bool", b |-> b, neg |-> FALSE, mag |-> <<>>, s |-> <<>>]

\* Value::Uint(n): n is held as its decimal digits without leading zeros
\* (zero is the empty sequence), so that u64 keeps its full width.
ValueUint(mag) == [vk |-> "Uint", b |-> FALSE, neg |-> FALSE, mag |-> mag, s |-> <<>>]

\* Value::Int(n): sign and magnitude; zero has no sign.
ValueInt(neg, mag) ==
    [vk |-> "Int", b |-> FALSE, neg |-> neg /\ mag # <<>>, mag |-> mag, s |-> <<>>]

\* Value::String(s)
ValueString(s) == [vk |-> "String", b |-> FALSE, neg |-> FALSE, mag |-> <<>>, s |-> s]

\* Flag::Bool(name), Flag::Uint(name), Flag::Int(name), Flag::String(name)
Flag(kind, nm) == [kind |-> kind, name |-> nm]

\* Flag::name
name(f) == f.name

\* ArgsItem::Command(c), ArgsItem::Flag(f), ArgsItem::Value(v)
ItemCommand(c) == [tag |-> "Command", c |-> c]

ItemFlag(f) == [tag |-> "Flag", f |-> f]

ItemValue(v) == [tag |-> "Value", v |-> v]

(***************************************************************************)
(* FromStr for bool, u64, i64 and String, as Flag::parse_value calls them. *)
(***************************************************************************)
\* u64::MAX = 18446744073709551615 and -i64::MIN = 9223372036854775808,
\* as decimal digits.
U64MaxDigits == <<1,8,4,4,6,7,4,4,0,7,3,7,0,9,5,5,1,6,1,5>>

I64MaxDigits == <<9,2,2,3,3,7,2,0,3,6,8,5,4,7,7,5,8,0,7>>

I64MinDigits == <<9,2,2,3,3,7,2,0,3,6,8,5,4,7,7,5,8,0,8>>

RECURSIVE StripZeros(_)
StripZeros(d) == IF d # <<>> /\ Head(d) = 0 THEN StripZeros(Tail(d)) ELSE d

\* The number with digits a is at most the number with digits b (neither has
\* leading zeros).
DigitsLeq(a, b) ==
    \/ Len(a) < Len(b)
    \/ /\ Len(a) = Len(b)
       /\ \/ a = b
          \/ \E k \in 1..Len(a) :
                /\ a[k] < b[k]
                /\ \A j \in 1..(k - 1) : a[j] = b[j]

\* <bool as FromStr>::from_str: exactly "true" or "false".
parse_bool(arg) ==
    IF arg = <<"t", "r", "u", "e">> THEN Ok(TRUE)
    ELSE IF arg = <<"f", "a", "l", "s", "e">> THEN Ok(FALSE)
    ELSE Err("ParseBoolError")

\* core::num from_str_radix(src, 10): an optional sign ("+", and "-" for a
\* signed type), then at least one digit, all of them digits, within range.
parse_int(arg, signed) ==
    IF arg = <<>> THEN Err("Empty")
    ELSE IF Len(arg) = 1 /\ Head(arg) \in {"+", "-"} THEN Err("InvalidDigit")
    ELSE LET positive == ~(signed /\ Head(arg) = "-")
             digits == IF Head(arg) = "+" \/ (signed /\ Head(arg) = "-")
                       THEN Tail(arg) ELSE arg
         IN IF \E k \in 1..Len(digits) : ~IsDigit(digits[k]) THEN Err("InvalidDigit")
            ELSE LET mag == StripZeros([k \in 1..Len(digits) |-> DigitVal(digits[k])])
                     max == IF ~signed THEN U64MaxDigits
                            ELSE IF positive THEN I64MaxDigits ELSE I64MinDigits
                 IN IF ~DigitsLeq(mag, max)
                    THEN Err(IF positive THEN "PosOverflow" ELSE "NegOverflow")
                    ELSE Ok([neg |-> ~positive, mag |-> mag])

(***************************************************************************)
(* Flag::parse_value and the closure try_parse_flag of ArgsParser::parse.  *)
(***************************************************************************)
\* A parse_value that reads the value of a Uint flag as a signed number.
parse_value_signed(flag, arg) ==
    IF flag.kind = "Bool" THEN
        LET r == parse_bool(arg)
        IN IF r.ok THEN Ok(ValueBool(r.val)) ELSE Err(MalformedArgument(arg))
    ELSE IF flag.kind \in {"Uint", "Int"} THEN
        LET r == parse_int(arg, TRUE)
        IN IF r.ok THEN Ok([ValueInt(r.val.neg, r.val.mag) EXCEPT !.vk = flag.kind])
           ELSE Err(MalformedArgument(arg))
    ELSE Ok(ValueString(arg))

\* Flag::parse_value(&self, arg): the value of the flag's kind that arg parses
\* to, or MalformedArgument(arg).
parse_value(flag, arg) ==
    IF flag.kind = "Bool" THEN
        LET r == parse_bool(arg)
        IN IF r.ok THEN Ok(ValueBool(r.val)) ELSE Err(MalformedArgument(arg))
    ELSE IF flag.kind = "Uint" THEN
        LET r == parse_int(arg, FALSE)
        IN IF r.ok THEN Ok(ValueUint(r.val.mag)) ELSE Err(MalformedArgument(arg))
    ELSE IF flag.kind = "Int" THEN
        LET r == parse_int(arg, TRUE)
        IN IF r.ok THEN Ok(ValueInt(r.val.neg, r.val.mag))
           ELSE Err(MalformedArgument(arg))
    ELSE Ok(ValueString(arg))

\* The name try_parse_flag looks up: every "--" removed from a token that
\* starts with "--", every "-" removed from a token of two bytes.
flag_name(arg) ==
    IF starts_with(arg, <<"-", "-">>) THEN Ok(str_replace(arg, <<"-", "-">>))
    ELSE IF str_len(arg) = 2 THEN Ok(str_replace(arg, <<"-">>))
    ELSE Err(MalformedArgument(arg))

\* self.flags.iter().find(|f| f.name() == flag): the first declared flag of
\* that name.
find_flag(fl, nm) ==
    IF \E k \in 1..Len(fl) : name(fl[k]) = nm
    THEN LET k == CHOOSE k \in 1..Len(fl) :
                     /\ name(fl[k]) = nm
                     /\ \A j \in 1..(k - 1) : name(fl[j]) # nm
         IN Ok(fl[k])
    ELSE Err(BadFlag)

\* try_parse_flag(arg)
try_parse_flag(fl, arg) ==
    LET nm == flag_name(arg)
    IN IF ~nm.ok THEN nm
       ELSE LET f == find_flag(fl, nm.val)
            IN IF f.ok THEN Ok(ItemFlag(f.val)) ELSE f

\* self.commands.iter().find(|c| &*c.0 == arg)
find_command(cs, arg) ==
    IF \E k \in 1..Len(cs) : cs[k] = arg THEN Ok(arg) ELSE Err("None")

\* An arm `_` that rejects a bare token that is no command.
classify_fresh_strict(fl, cs, arg) ==
    IF find_command(cs, arg).ok THEN Ok(ItemCommand(arg))
    ELSE IF starts_with(arg, <<"-">>) THEN try_parse_flag(fl, arg)
    ELSE Err(MalformedArgument(arg))

\* The arm `_` of the match on prev: a command, else a flag, else a bare
\* string value.
classify_fresh(fl, cs, arg) ==
    IF find_command(cs, arg).ok THEN Ok(ItemCommand(arg))
    ELSE IF starts_with(arg, <<"-">>) THEN try_parse_flag(fl, arg)
    ELSE Ok(ItemValue(ValueString(arg)))

\* An arm ArgsItem::Flag(flag) that takes the token as a string whatever the
\* flag's kind.
classify_after_flag_untyped(flag, arg) == Ok(ItemValue(ValueString(arg)))

\* The arm ArgsItem::Flag(flag): the token is the flag's value.
classify_after_flag(flag, arg) ==
    LET v == parse_value(flag, arg)
    IN IF v.ok THEN Ok(ItemValue(v.val)) ELSE v

\* A boolean flag that claims the next token as every other flag does.
classify_after_bool_greedy(fl, cs, flag, arg) == classify_after_flag(flag, arg)

\* A boolean flag after which a bare token is an unclaimed string value.
classify_after_bool_bare(fl, cs, flag, arg) ==
    IF find_command(cs, arg).ok THEN Ok(ItemCommand(arg))
    ELSE IF starts_with(arg, <<"-">>) THEN try_parse_flag(fl, arg)
    ELSE Ok(ItemValue(ValueString(arg)))

\* The arm ArgsItem::Flag(flag @ Flag::Bool(_)): a command, else a flag, else
\* the flag's boolean value.
classify_after_bool(fl, cs, flag, arg) ==
    IF find_command(cs, arg).ok THEN Ok(ItemCommand(arg))
    ELSE IF starts_with(arg, <<"-">>) THEN try_parse_flag(fl, arg)
    ELSE LET v == parse_value(flag, arg)
         IN IF v.ok THEN Ok(ItemValue(v.val)) ELSE v

\* A loop body in which no flag claims the next token unconditionally.
classify_never_greedy(fl, cs, p, arg) ==
    IF p.tag = "Flag" THEN classify_after_bool(fl, cs, p.f, arg)
    ELSE classify_fresh(fl, cs, arg)

\* The body of the loop of ArgsParser::parse: the match on prev.
classify(fl, cs, p, arg) ==
    IF p.tag = "Flag" /\ p.f.kind = "Bool" THEN classify_after_bool(fl, cs, p.f, arg)
    ELSE IF p.tag = "Flag" THEN classify_after_flag(p.f, arg)
    ELSE classify_fresh(fl, cs, arg)

(***************************************************************************)
(* ParsedArgs::flags and ParsedArgs::commands.                             *)
(***************************************************************************)
\* Option<Value>: None is the empty sequence, Some(v) the sequence of v.
None == <<>>

Some(v) == <<v>>

\* An insert that keeps the value a key already has.
map_insert_keep_first(m, k, v) ==
    IF k \in DOMAIN m /\ m[k] # None THEN m
    ELSE [x \in (DOMAIN m) \cup {k} |-> IF x = k THEN v ELSE m[x]]

\* HashMap::insert
map_insert(m, k, v) == [x \in (DOMAIN m) \cup {k} |-> IF x = k THEN v ELSE m[x]]

\* A loop that records nothing for a boolean flag without a value.
flag_entry_no_default(its, i) ==
    IF i < Len(its) /\ its[i + 1].tag = "Value" THEN Some(its[i + 1].v)
    ELSE None

\* What the loop of ParsedArgs::flags records for the flag item at position i:
\* the value item that follows it, else Bool(true) for a boolean flag, else
\* None.
flag_entry(its, i) ==
    IF i < Len(its) /\ its[i + 1].tag = "Value" THEN Some(its[i + 1].v)
    ELSE IF its[i].f.kind = "Bool" THEN Some(ValueBool(TRUE))
    ELSE None

RECURSIVE flags_loop_skip_none(_, _, _)
\* A loop that inserts nothing for a flag item without a value to record.
flags_loop_skip_none(m, its, i) ==
    IF i > Len(its) THEN m
    ELSE IF its[i].tag = "Flag" /\ flag_entry(its, i) # None
         THEN flags_loop_skip_none(map_insert(m, its[i].f, flag_entry(its, i)), its, i + 1)
         ELSE flags_loop_skip_none(m, its, i + 1)

RECURSIVE flags_loop(_, _, _)
\* The loop `while let Some(item) = items.next()` of ParsedArgs::flags, from
\* position i on.
flags_loop(m, its, i) ==
    IF i > Len(its) THEN m
    ELSE IF its[i].tag = "Flag"
         THEN flags_loop(map_insert(m, its[i].f, flag_entry(its, i)), its, i + 1)
         ELSE flags_loop(m, its, i + 1)

\* A flags() whose map starts without the flag declared first.
ParsedArgs_flags_drop_first(fl, its) ==
    flags_loop([f \in {fl[k] : k \in 2..Len(fl)} |-> None], its, 1)

\* A flags() whose map starts empty: only the flags met in the items are keys.
ParsedArgs_flags_seen_only(fl, its) == flags_loop([f \in {} |-> None], its, 1)

\* ParsedArgs::flags(&self): every declared flag starts at None.
ParsedArgs_flags(fl, its) ==
    flags_loop([f \in {fl[k] : k \in 1..Len(fl)} |-> None], its, 1)

RECURSIVE ParsedArgs_commands_dedup(_)
\* A commands() that lists each command once.
ParsedArgs_commands_dedup(its) ==
    IF its = <<>> THEN <<>>
    ELSE LET r == ParsedArgs_commands_dedup(SubSeq(its, 1, Len(its) - 1))
             l == its[Len(its)]
         IN IF l.tag = "Command" /\ ~(\E k \in 1..Len(r) : r[k] = l.c)
            THEN Append(r, l.c) ELSE r

RECURSIVE ParsedArgs_commands(_)
\* ParsedArgs::commands(&self): the commands among the items, in order.
ParsedArgs_commands(its) ==
    IF its = <<>> THEN <<>>
    ELSE IF Head(its).tag = "Command"
         THEN <<Head(its).c>> \o ParsedArgs_commands(Tail(its))
         ELSE ParsedArgs_commands(Tail(its))

RECURSIVE parse_from(_, _, _, _, _)
\* The loop of ArgsParser::parse run over the tokens toks, from prev p and the
\* items its: Ok(the items) or the error of the first token that fails.
parse_from(fl, cs, p, its, toks) ==
    IF toks = <<>> THEN Ok(its)
    ELSE LET r == classify(fl, cs, p, Head(toks))
         IN IF r.ok THEN parse_from(fl, cs, r.val, Append(its, r.val), Tail(toks))
            ELSE r

\* ArgsParser::parse(self) as a function of the declared flags, the declared
\* commands and the tokens.
parse(fl, cs, toks) == parse_from(fl, cs, ItemValue(ValueBool(FALSE)), <<>>, toks)

(***************************************************************************)
(* The inputs: vocabularies and argument tokens.                           *)
(***************************************************************************)
\* Flag and command names.
n_f == <<"f">>

n_u == <<"u">>

n_s == <<"s">>

n_ab == <<"a", "b">>

n_e2 == <<"é">>

n_c == <<"c">>

\* A vocabulary with a flag of every kind, one-byte, two-byte and
\* two-character names, and one command.
VocabAll ==
    [flags |-> <<Flag("Uint", n_u), Flag("Bool", n_f), Flag("Int", n_ab),
                 Flag("String", n_s), Flag("Bool", n_e2)>>,
     commands |-> <<n_c>>]

\* A vocabulary whose second command begins with a dash.
VocabDashCommand ==
    [flags |-> <<Flag("Bool", n_f), Flag("String", n_s)>>,
     commands |-> <<n_c, <<"-", "u">> >>]

\* A vocabulary without flags.
VocabNoFlags == [flags |-> <<>>, commands |-> <<n_c>>]

Vocabularies == {VocabAll, VocabDashCommand, VocabNoFlags}

\* The tokens fed to the parsers whose accessors are called: bare words,
\* numerals, boolean literals, declared flags of every kind and an
\* undeclared one.
AccessorTokens ==
    { <<>>, <<"c">>, <<"x">>, <<"1">>, <<"-", "2">>,
      <<"t", "r", "u", "e">>, <<"f", "a", "l", "s", "e">>,
      <<"-", "f">>, <<"-", "u">>, <<"-", "s">>, <<"-", "-", "a", "b">>,
      <<"-", "x">> }

\* The orders a list can be declared in.
Orders(fl) ==
    {[k \in 1..Len(fl) |-> fl[pi[k]]] : pi \in Permutations(1..Len(fl))}

\* Vocabularies declared in every order: three flags of distinct names, and
\* three flags two of which share the name f.
VocabulariesInOrders ==
    {[flags |-> fl, commands |-> <<n_c>>] :
        fl \in Orders(<<Flag("Bool", n_f), Flag("Uint", n_u), Flag("String", n_s)>>)
               \cup Orders(<<Flag("Bool", n_f), Flag("Uint", n_f), Flag("String", n_s)>>)}

\* The tokens fed to the parsers declared in every order.
OrderTokens ==
    { <<"c">>, <<"x">>, <<"1">>, <<"t", "r", "u", "e">>,
      <<"-", "f">>, <<"-", "u">>, <<"-", "-", "s">> }

\* Vocabularies in which flags share a name: two kinds under a one-byte name
\* in both orders, under a two-byte name, under a name of two characters,
\* and the identical flag declared twice.
VocabulariesColliding ==
    {[flags |-> fl, commands |-> <<n_c>>] :
        fl \in { <<Flag("Bool", n_f), Flag("Uint", n_f), Flag("String", n_s)>>,
                 <<Flag("Uint", n_f), Flag("Bool", n_f), Flag("String", n_s)>>,
                 <<Flag("Bool", n_e2), Flag("Uint", n_e2)>>,
                 <<Flag("Int", n_ab), Flag("String", n_ab), Flag("Bool", n_f)>>,
                 <<Flag("Bool", n_f), Flag("String", n_s), Flag("Bool", n_f)>> }}

\* The tokens fed to the parsers with colliding names.
CollisionTokens ==
    { <<"c">>, <<"x">>, <<"1">>, <<"t", "r", "u", "e">>,
      <<"-", "f">>, <<"-", "-", "f">>, <<"-", "é">>, <<"-", "-", "é">>,
      <<"-", "-", "a", "b">>, <<"-", "s">> }

\* The command names of main.rs.
NEW_COMMAND == <<"n", "e", "w">>

UPDATE_COMMAND == <<"u", "p", "d", "a", "t", "e">>

SCAN_COMMAND == <<"s", "c", "a", "n">>

ADD_COMMAND == <<"a", "d", "d">>

BUILD_COMMAND == <<"b", "u", "i", "l", "d">>

\* The vocabulary main declares: five commands and no flag.
VocabMain ==
    [flags |-> <<>>,
     commands |-> <<NEW_COMMAND, UPDATE_COMMAND, SCAN_COMMAND, ADD_COMMAND,
                    BUILD_COMMAND>>]

\* The tokens env::args() may yield to main: the program's name, the command
\* names, a path, and tokens with leading dashes.
MainTokens ==
    { <<"w", "h", "i", "m">>,
      NEW_COMMAND, UPDATE_COMMAND, SCAN_COMMAND, ADD_COMMAND, BUILD_COMMAND,
      <<"x">>,
      <<"-", "-", "h", "e", "l", "p">>,
      <<"-">> }

\* The tokens the argument iterator may yield.
Tokens ==
    { <<>>,                                \* the empty token
      <<"c">>,                             \* c
      <<"x">>,                             \* x
      <<"1">>,                             \* 1
      <<"+", "0", "1">>,                   \* +01
      <<"-", "2">>,                        \* -2
      <<"t", "r", "u", "e">>,              \* true
      <<"f", "a", "l", "s", "e">>,         \* false
      <<"-">>,                             \* -
      <<"-", "-">>,                        \* --
      <<"-", "f">>,                        \* -f
      <<"-", "-", "f">>,                   \* --f
      <<"-", "u">>,                        \* -u
      <<"-", "s">>,                        \* -s
      <<"-", "-", "a", "b">>,              \* --ab
      <<"-", "a", "b">>,                   \* -ab
      <<"-", "-", "f", "-", "-">>,         \* --f--
      <<"-", "-", "a", "-", "-", "b">>,    \* --a--b
      <<"-", "é">>,                        \* -é
      <<"-", "-", "é">>,                   \* --é
      <<"-", "x">>,                        \* -x
      \* 18446744073709551616 = u64::MAX + 1
      <<"1","8","4","4","6","7","4","4","0","7","3","7","0","9","5","5","1","6","1","6">> }

(***************************************************************************)
(* The state.                                                              *)
(***************************************************************************)
VARIABLES
    flags,      \* ArgsParser.flags, then ParsedArgs.flags
    commands,   \* ArgsParser.commands
    args,       \* the tokens the iterator self.args has yielded so far
    prev,       \* parse's local prev
    items,      \* parse's local items, then ParsedArgs.items
    result,     \* parse's return: st is "running", "ok" or "err"
    flags_ret,  \* Some(the map the last call of flags() returned)
    commands_ret, \* Some(the list the last call of commands() returned)
    main,       \* the run of main(): where it is, what it printed and returned
    prompt      \* a call of PromptItem::from_prompt: the line read, the answer

parser_vars == <<flags, commands, args, prev, items, result, flags_ret, commands_ret>>

vars == <<flags, commands, args, prev, items, result, flags_ret, commands_ret,
          main, prompt>>

NoError == [e |-> "", arg |-> <<>>]

\* The parser is used without main(): nothing of main has run.
NoMain == [pc |-> "none", out |-> <<>>, ret |-> "", command |-> None, handler |-> ""]

\* No prompt is shown.
NoPrompt == [kind |-> "", input |-> None, answer |-> ""]

\* ArgsParser::new(args).flag(..).command(..), and the first two lines of
\* parse, for a parser declared with the vocabulary v.
ArgsParser_new(v) ==
    /\ flags = v.flags /\ commands = v.commands
    /\ args = <<>>
    /\ prev = ItemValue(ValueBool(FALSE))
    /\ items = <<>>
    /\ result = [st |-> "running", err |-> NoError]
    /\ flags_ret = None
    /\ commands_ret = None

\* A parser of one of the vocabularies, used as a library.
Init ==
    /\ \E v \in Vocabularies : ArgsParser_new(v)
    /\ main = NoMain
    /\ prompt = NoPrompt

\* A loop that drops a token that fails and goes on with the next.
parse_arg_skip(T) ==
    /\ result.st = "running"
    /\ Len(args) < MaxArgs
    /\ \E arg \in T :
          LET r == classify(flags, commands, prev, arg)
          IN /\ args' = Append(args, arg)
             /\ IF r.ok
                THEN /\ prev' = r.val
                     /\ items' = Append(items, r.val)
                ELSE UNCHANGED <<prev, items>>
             /\ UNCHANGED result
    /\ UNCHANGED <<flags, commands, flags_ret, commands_ret, main, prompt>>

\* One turn of the loop `for arg in self.args` of parse, the iterator
\* yielding a token of T: the token is classified and pushed, or parse returns
\* the error.
parse_arg(T) ==
    /\ result.st = "running"
    /\ Len(args) < MaxArgs
    /\ \E arg \in T :
          LET r == classify(flags, commands, prev, arg)
          IN /\ args' = Append(args, arg)
             /\ IF r.ok
                THEN /\ prev' = r.val
                     /\ items' = Append(items, r.val)
                     /\ UNCHANGED result
                ELSE /\ result' = [st |-> "err", err |-> r.err]
                     /\ UNCHANGED <<prev, items>>
    /\ UNCHANGED <<flags, commands, flags_ret, commands_ret, main, prompt>>

\* The iterator is exhausted: parse returns Ok(ParsedArgs { flags, items }).
parse_ok ==
    /\ result.st = "running"
    /\ result' = [st |-> "ok", err |-> NoError]
    /\ UNCHANGED <<flags, commands, args, prev, items, flags_ret, commands_ret,
                   main, prompt>>

\* A call of ParsedArgs::flags.
call_flags ==
    /\ result.st = "ok"
    /\ flags_ret' = Some(ParsedArgs_flags(flags, items))
    /\ UNCHANGED <<flags, commands, args, prev, items, result, commands_ret,
                   main, prompt>>

\* A call of ParsedArgs::commands.
call_commands ==
    /\ result.st = "ok"
    /\ commands_ret' = Some(ParsedArgs_commands(items))
    /\ UNCHANGED <<flags, commands, args, prev, items, result, flags_ret,
                   main, prompt>>

Next == parse_arg(Tokens) \/ parse_ok \/ call_flags \/ call_commands

Spec == Init /\ [][Next]_vars

\* The same parsers fed with the tokens of AccessorTokens.
NextAccessors ==
    parse_arg(AccessorTokens) \/ parse_ok \/ call_flags \/ call_commands

SpecAccessors == Init /\ [][NextAccessors]_vars

\* A parser of a vocabulary in which flags share a name.
InitCollision ==
    /\ \E v \in VocabulariesColliding : ArgsParser_new(v)
    /\ main = NoMain
    /\ prompt = NoPrompt

NextCollision ==
    parse_arg(CollisionTokens) \/ parse_ok \/ call_flags \/ call_commands

SpecCollision == InitCollision /\ [][NextCollision]_vars

\* A parser of a vocabulary declared in one of its orders.
InitOrder ==
    /\ \E v \in VocabulariesInOrders : ArgsParser_new(v)
    /\ main = NoMain
    /\ prompt = NoPrompt

NextOrder == parse_arg(OrderTokens) \/ parse_ok \/ call_flags \/ call_commands

SpecOrder == InitOrder /\ [][NextOrder]_vars

(***************************************************************************)
(* main() of main.rs: the parser fed with env::args(), then the choice of  *)
(* the command.                                                            *)
(***************************************************************************)
\* main has built its parser and calls parse.
InitMainRun ==
    [pc |-> "parse", out |-> <<>>, ret |-> "", command |-> None, handler |-> ""]

InitMain ==
    /\ ArgsParser_new(VocabMain)
    /\ main = InitMainRun
    /\ prompt = NoPrompt

\* An arm Err(_) that hands the error on to the caller of main.
main_help_propagate ==
    /\ main.pc = "parse"
    /\ result.st = "err"
    /\ main' = [main EXCEPT !.pc = "done", !.ret = "Err"]
    /\ UNCHANGED <<parser_vars, prompt>>

\* The arm Err(_) of the match on parse's result: print_help(); return Ok(()).
main_help ==
    /\ main.pc = "parse"
    /\ result.st = "err"
    /\ main' = [main EXCEPT !.pc = "done", !.out = Append(@, "help"), !.ret = "Ok"]
    /\ UNCHANGED <<parser_vars, prompt>>

\* The block `let command = { .. }`: commands() is called; more than one
\* command prints the message and returns Ok(()); otherwise cmds[0] is taken,
\* which panics on an empty list.
main_command ==
    /\ main.pc = "parse"
    /\ result.st = "ok"
    /\ LET cmds == ParsedArgs_commands(items)
       IN /\ commands_ret' = Some(cmds)
          /\ main' = IF Len(cmds) > 1
                     THEN [main EXCEPT !.pc = "done", !.out = Append(@, "singular"),
                                       !.ret = "Ok"]
                     ELSE IF Len(cmds) = 0
                     THEN [main EXCEPT !.pc = "panic", !.ret = "panic"]
                     ELSE [main EXCEPT !.pc = "dispatch", !.command = Some(cmds[1])]
    /\ UNCHANGED <<flags, commands, args, prev, items, result, flags_ret, prompt>>

\* The match on the command: new, update and scan return what their handler
\* returns; add and build first take command_parameters(cmd).unwrap()[0],
\* a call whose outcome is open: the handler runs or main panics.
main_dispatch ==
    /\ main.pc = "dispatch"
    /\ LET c == main.command[1]
       IN \E r \in {"Ok", "Err", "panic"} :
             /\ r = "panic" => c \in {ADD_COMMAND, BUILD_COMMAND}
             /\ main' = IF r = "panic"
                        THEN [main EXCEPT !.pc = "panic", !.ret = "panic"]
                        ELSE [main EXCEPT !.pc = "done", !.handler = c, !.ret = r]
    /\ UNCHANGED <<parser_vars, prompt>>

NextMain ==
    parse_arg(MainTokens) \/ parse_ok \/ main_help \/ main_command \/ main_dispatch

SpecMain == InitMain /\ [][NextMain]_vars

\* main runs on: once parse has returned an error the arm Err(_) is taken.
FairSpecMain == SpecMain /\ WF_vars(main_help)

(***************************************************************************)
(* The vocabulary of the properties.  In every reachable state args holds  *)
(* the tokens consumed so far and items their classifications; when parse  *)
(* has failed, the last token of args is the one that failed.              *)
(***************************************************************************)
Positions == 1..Len(args)

\* What parse did with the i-th token: Ok(its item), or Err(the error parse
\* returned at it).
Outcome(i) == IF i <= Len(items) THEN Ok(items[i]) ELSE Err(result.err)

\* The item before the i-th token is a flag of one of the kinds.
AfterFlagOf(i, kinds) ==
    i > 1 /\ items[i - 1].tag = "Flag" /\ items[i - 1].f.kind \in kinds

AfterValueFlag(i) == AfterFlagOf(i, {"Uint", "Int", "String"})

AfterBoolFlag(i) == AfterFlagOf(i, {"Bool"})

IsCommandName(t) == \E k \in 1..Len(commands) : commands[k] = t

DeclaredNames == {flags[k].name : k \in 1..Len(flags)}

\* The flag declared first among those named nm.
FirstDeclared(nm) ==
    flags[CHOOSE k \in 1..Len(flags) :
              flags[k].name = nm /\ \A j \in 1..(k - 1) : flags[j].name # nm]

\* t is a decimal numeral of the kind: an optional sign ("+", or "-" when
\* signed), one digit or more, within the range of u64 or i64.
IsNumeral(t, signed) ==
    \E p \in {0, 1} :
        /\ Len(t) > p
        /\ p = 1 => (t[1] = "+" \/ (signed /\ t[1] = "-"))
        /\ \A k \in (p + 1)..Len(t) : IsDigit(t[k])
        /\ LET mag == StripZeros([k \in 1..(Len(t) - p) |-> DigitVal(t[k + p])])
           IN DigitsLeq(mag, IF ~signed THEN U64MaxDigits
                             ELSE IF p = 1 /\ t[1] = "-" THEN I64MinDigits
                             ELSE I64MaxDigits)

TrueLit == <<"t", "r", "u", "e">>

FalseLit == <<"f", "a", "l", "s", "e">>

(***************************************************************************)
(* C1..C4: what follows a flag.                                            *)
(***************************************************************************)
\* C1: the token right after a Uint, Int or String flag is classified as a
\* value of that flag's kind or makes parse fail; it is never a command or a
\* flag item, so commands() has no entry for it.
GreedyValueClaim ==
    /\ \A i \in Positions :
          AfterValueFlag(i) =>
             /\ i <= Len(items) =>
                   /\ items[i].tag = "Value"
                   /\ items[i].v.vk = items[i - 1].f.kind
             /\ i > Len(items) => result.st = "err"
    /\ commands_ret # None =>
          Len(commands_ret[1]) <=
             Cardinality({i \in 1..Len(items) : ~AfterValueFlag(i)})

\* C1 witness: a command name and a dash token were each taken as the value
\* of a String flag, and commands() was called.
GreedyValueClaimWitness ==
    /\ commands_ret # None
    /\ \E i \in Positions :
          AfterFlagOf(i, {"String"}) /\ IsCommandName(args[i]) /\ i <= Len(items)
    /\ \E i \in Positions :
          AfterFlagOf(i, {"String"}) /\ starts_with(args[i], <<"-">>)
             /\ i <= Len(items)

\* C2: a token after a Uint or Int flag that is no numeral of that kind makes
\* parse fail with MalformedArgument of exactly that token; a token after a
\* String flag never fails.
CoercionFailure ==
    \A i \in Positions :
       /\ AfterFlagOf(i, {"Uint"}) /\ ~IsNumeral(args[i], FALSE) =>
             Outcome(i) = Err(MalformedArgument(args[i]))
       /\ AfterFlagOf(i, {"Int"}) /\ ~IsNumeral(args[i], TRUE) =>
             Outcome(i) = Err(MalformedArgument(args[i]))
       /\ AfterFlagOf(i, {"String"}) => Outcome(i).ok

\* C2 witness: a dash-prefixed token after a Uint flag failed as
\* MalformedArgument.
CoercionFailureWitness ==
    \E i \in Positions :
       /\ AfterFlagOf(i, {"Uint"})
       /\ starts_with(args[i], <<"-">>)
       /\ result.st = "err"
       /\ result.err = MalformedArgument(args[i])

\* C3: after a boolean flag a command name is a command item, and any other
\* token that begins with a dash has the outcome it would have as the first
\* token: a flag item, BadFlag or MalformedArgument, never a value.
BooleanNonGreedy ==
    \A i \in Positions :
       AfterBoolFlag(i) =>
          /\ IsCommandName(args[i]) => Outcome(i) = Ok(ItemCommand(args[i]))
          /\ ~IsCommandName(args[i]) /\ starts_with(args[i], <<"-">>) =>
                /\ Outcome(i) =
                      classify(flags, commands, ItemValue(ValueBool(FALSE)), args[i])
                /\ Outcome(i).ok => items[i].tag = "Flag"
                /\ ~Outcome(i).ok => result.err.e \in {"BadFlag", "MalformedArgument"}

\* C3 witness: after boolean flags, a command name became a command item and a
\* dash token became a flag item.
BooleanNonGreedyWitness ==
    /\ \E i \in Positions :
          AfterBoolFlag(i) /\ IsCommandName(args[i]) /\ i <= Len(items)
    /\ \E i \in Positions :
          /\ AfterBoolFlag(i) /\ ~IsCommandName(args[i])
          /\ starts_with(args[i], <<"-">>) /\ i <= Len(items)

\* C4 as stated: after a boolean flag, a token that is no command and has no
\* leading dash is the bare value String(token) and never fails.
BoolBareTokenIsString ==
    \A i \in Positions :
       AfterBoolFlag(i) /\ ~IsCommandName(args[i]) /\ ~starts_with(args[i], <<"-">>) =>
          Outcome(i) = Ok(ItemValue(ValueString(args[i])))

\* C4 as amended: after a boolean flag, a token that is no command and has no
\* leading dash is parsed as the flag's boolean value: `true` and `false`
\* give the value items Bool(true) and Bool(false), every other text makes
\* parse fail with MalformedArgument of that token.
BoolBareTokenIsBool ==
    \A i \in Positions :
       AfterBoolFlag(i) /\ ~IsCommandName(args[i]) /\ ~starts_with(args[i], <<"-">>) =>
          Outcome(i) = IF args[i] = TrueLit THEN Ok(ItemValue(ValueBool(TRUE)))
                       ELSE IF args[i] = FalseLit THEN Ok(ItemValue(ValueBool(FALSE)))
                       ELSE Err(MalformedArgument(args[i]))

\* C4 witness: after boolean flags, `true` became Bool(true) and a token that
\* is no boolean literal failed.
BoolBareTokenWitness ==
    /\ \E i \in Positions :
          AfterBoolFlag(i) /\ args[i] = TrueLit /\ i <= Len(items)
    /\ \E i \in Positions :
          /\ AfterBoolFlag(i) /\ ~IsCommandName(args[i])
          /\ ~starts_with(args[i], <<"-">>) /\ args[i] \notin {TrueLit, FalseLit}
          /\ result.st = "err"

(***************************************************************************)
(* C5..C8: flag resolution.                                                *)
(***************************************************************************)
\* Flag resolution applies to the i-th token: it does not follow a Uint, Int
\* or String flag, it is no declared command, and it begins with a dash.
FlagResolutionAt(i) ==
    /\ ~AfterValueFlag(i)
    /\ ~IsCommandName(args[i])
    /\ starts_with(args[i], <<"-">>)

Dash1(nm) == <<"-">> \o nm

Dash2(nm) == <<"-", "-">> \o nm

\* The token begins with exactly one dash.
OneLeadingDash(t) == Len(t) >= 1 /\ t[1] = "-" /\ (Len(t) >= 2 => t[2] # "-")

\* The token with its two leading dashes removed and nothing else changed.
DropTwo(t) == SubSeq(t, 3, Len(t))

RECURSIVE StripLeadingDashes(_)
\* The token without its leading dashes.
StripLeadingDashes(t) ==
    IF t # <<>> /\ Head(t) = "-" THEN StripLeadingDashes(Tail(t)) ELSE t

\* C5: where flag resolution applies, for a declared one-character name x
\* both -x and --x are the flag item of x; for a declared name of several
\* characters --name is its flag item and -name is not; a token with exactly
\* one leading dash whose length is not 2 fails with MalformedArgument of
\* that token.
SingleVsDoubleDash ==
    \A i \in Positions :
       FlagResolutionAt(i) =>
          /\ \A x \in DeclaredNames :
                Len(x) = 1 /\ args[i] \in {Dash1(x), Dash2(x)} =>
                   Outcome(i) = Ok(ItemFlag(FirstDeclared(x)))
          /\ \A n \in DeclaredNames :
                Len(n) > 1 =>
                   /\ args[i] = Dash2(n) => Outcome(i) = Ok(ItemFlag(FirstDeclared(n)))
                   /\ args[i] = Dash1(n) => ~Outcome(i).ok
          /\ OneLeadingDash(args[i]) /\ Len(args[i]) # 2 =>
                Outcome(i) = Err(MalformedArgument(args[i]))

\* C6: where flag resolution applies, a token --name, or a dash and one
\* character, whose name is the name of no declared flag fails with BadFlag.
UnknownFlagRejected ==
    \A i \in Positions :
       FlagResolutionAt(i) =>
          /\ starts_with(args[i], <<"-", "-">>) /\ DropTwo(args[i]) \notin DeclaredNames =>
                Outcome(i) = Err(BadFlag)
          /\ OneLeadingDash(args[i]) /\ Len(args[i]) = 2
                /\ <<args[i][2]>> \notin DeclaredNames =>
                Outcome(i) = Err(BadFlag)

\* C7: where flag resolution applies, a token that begins with two dashes is
\* looked up by the token with exactly its two leading dashes removed: it is
\* the flag item of the first flag declared with that name, or BadFlag.
DoubleDashStripsTwo ==
    \A i \in Positions :
       FlagResolutionAt(i) /\ starts_with(args[i], <<"-", "-">>) =>
          Outcome(i) = IF DropTwo(args[i]) \in DeclaredNames
                       THEN Ok(ItemFlag(FirstDeclared(DropTwo(args[i]))))
                       ELSE Err(BadFlag)

\* The value is what the token reads as.
CoercedFrom(v, t) ==
    IF v.vk = "String" THEN v = ValueString(t)
    ELSE IF v.vk = "Bool" THEN t = (IF v.b THEN TrueLit ELSE FalseLit)
    ELSE /\ IsNumeral(t, v.vk = "Int")
         /\ v.neg = (t[1] = "-" /\ v.mag # <<>>)
         /\ LET p == IF t[1] \in {"+", "-"} THEN 1 ELSE 0
            IN v.mag = StripZeros([k \in 1..(Len(t) - p) |-> DigitVal(t[k + p])])

\* C8: after a successful parse there is one item per token, in order: a
\* command named as the token, a flag named as the token without its leading
\* dashes, or a value coerced from the token.
OneItemPerToken ==
    result.st = "ok" =>
       /\ Len(items) = Len(args)
       /\ \A i \in 1..Len(items) :
             \/ items[i] = ItemCommand(args[i])
             \/ /\ items[i].tag = "Flag"
                /\ items[i].f.name = StripLeadingDashes(args[i])
             \/ /\ items[i].tag = "Value"
                /\ CoercedFrom(items[i].v, args[i])

(***************************************************************************)
(* C9, C10: flags().                                                       *)
(***************************************************************************)
DeclaredFlags == {flags[k] : k \in 1..Len(flags)}

\* The positions of the flag items of f.
Occurrences(f) == {i \in 1..Len(items) : items[i] = ItemFlag(f)}

\* The last of them.
LastOccurrence(f) == CHOOSE i \in Occurrences(f) : \A j \in Occurrences(f) : j <= i

\* The item after position i is a value item.
ValueFollows(i) == i < Len(items) /\ items[i + 1].tag = "Value"

\* C9: the keys of the map flags() returns are exactly the declared flags,
\* and every declared flag without a flag item maps to None, boolean flags
\* too; the empty input parses, with no commands and every flag at None.
FlagsKeysAndAbsent ==
    /\ flags_ret # None =>
          /\ DOMAIN flags_ret[1] = DeclaredFlags
          /\ \A f \in DeclaredFlags : Occurrences(f) = {} => flags_ret[1][f] = None
    /\ args = <<>> =>
          /\ result.st # "err"
          /\ commands_ret # None => commands_ret[1] = <<>>
          /\ flags_ret # None => \A f \in DeclaredFlags : flags_ret[1][f] = None

\* C9 witness: flags() was called after a parse in which one declared
\* boolean flag occurred and another did not; the first has a value, the
\* second maps to None.
FlagsKeysAndAbsentWitness ==
    /\ flags_ret # None
    /\ \E f, g \in DeclaredFlags :
          /\ f.kind = "Bool" /\ g.kind = "Bool"
          /\ Occurrences(f) # {} /\ Occurrences(g) = {}
          /\ flags_ret[1][f] # None /\ flags_ret[1][g] = None

\* C10: in the map flags() returns, a boolean flag whose last flag item is
\* the final item or is followed by a flag or command item maps to
\* Bool(true); one whose last flag item is followed by a value item maps to
\* that value; a flag of another kind whose last flag item is not followed
\* by a value item maps to None.
PresenceDefault ==
    flags_ret # None =>
       \A f \in DeclaredFlags :
          Occurrences(f) # {} =>
             LET i == LastOccurrence(f)
             IN /\ f.kind = "Bool" /\ ~ValueFollows(i) =>
                      flags_ret[1][f] = Some(ValueBool(TRUE))
                /\ f.kind = "Bool" /\ ValueFollows(i) =>
                      flags_ret[1][f] = Some(items[i + 1].v)
                /\ f.kind # "Bool" /\ ~ValueFollows(i) => flags_ret[1][f] = None

\* C10 witness: flags() was called after a parse with a boolean flag followed
\* by a flag item, a boolean flag followed by the value false, and a flag of
\* another kind as the final item.
PresenceDefaultWitness ==
    /\ flags_ret # None
    /\ \E f, g, h \in DeclaredFlags :
          /\ f.kind = "Bool" /\ Occurrences(f) # {}
          /\ LastOccurrence(f) < Len(items)
          /\ items[LastOccurrence(f) + 1].tag = "Flag"
          /\ g.kind = "Bool" /\ Occurrences(g) # {}
          /\ ValueFollows(LastOccurrence(g))
          /\ flags_ret[1][g] = Some(ValueBool(FALSE))
          /\ h.kind # "Bool" /\ Occurrences(h) # {}
          /\ LastOccurrence(h) = Len(items)
          /\ flags_ret[1][h] = None

(***************************************************************************)
(* C11, C12: repeated flags and commands.                                  *)
(***************************************************************************)
\* C11: in the map flags() returns, a declared flag with two or more flag
\* items, each followed by a value item, maps to the value after the last.
LastWriteWins ==
    flags_ret # None =>
       \A f \in DeclaredFlags :
          /\ Cardinality(Occurrences(f)) >= 2
          /\ \A i \in Occurrences(f) : ValueFollows(i)
          => flags_ret[1][f] = Some(items[LastOccurrence(f) + 1].v)

\* C11 witness: flags() was called after a flag occurred twice with two
\* different values.
LastWriteWinsWitness ==
    /\ flags_ret # None
    /\ \E f \in DeclaredFlags :
          \E i, j \in Occurrences(f) :
             /\ i < j /\ ValueFollows(i) /\ ValueFollows(j)
             /\ items[i + 1].v # items[j + 1].v
             /\ flags_ret[1][f] = Some(items[j + 1].v)

\* The positions of the command items.
CommandPositions == {i \in 1..Len(items) : items[i].tag = "Command"}

\* C12: the list commands() returns has one entry per command item, in the
\* order of the items: the k-th command item's name is the k-th entry.
CommandsInOrder ==
    commands_ret # None =>
       /\ Len(commands_ret[1]) = Cardinality(CommandPositions)
       /\ \A i \in CommandPositions :
             commands_ret[1][Cardinality({j \in CommandPositions : j <= i})] = items[i].c

\* C12 witness: commands() returned a list in which one command name occurs
\* twice, with another command between.
CommandsInOrderWitness ==
    /\ commands_ret # None
    /\ Len(commands_ret[1]) >= 3
    /\ commands_ret[1][1] = commands_ret[1][3]
    /\ commands_ret[1][1] # commands_ret[1][2]

(***************************************************************************)
(* C19, C20, C14: kinds of the values, the last occurrence of a flag, bare *)
(* tokens no flag claims.                                                  *)
(***************************************************************************)
\* The positions of the flag items.
FlagPositions == {i \in 1..Len(items) : items[i].tag = "Flag"}

\* C19: in a successful parse result every non-boolean flag item that is not
\* the last item is followed by a value item of the flag's kind, every value
\* item after a boolean flag item is a Bool, and every Some(v) in the map of
\* flags() has the variant of its key's kind.
KindConsistency ==
    result.st = "ok" =>
       /\ \A i \in FlagPositions :
             /\ items[i].f.kind # "Bool" /\ i < Len(items)
                => items[i + 1].tag = "Value" /\ items[i + 1].v.vk = items[i].f.kind
             /\ items[i].f.kind = "Bool" /\ ValueFollows(i)
                => items[i + 1].v.vk = "Bool"
       /\ flags_ret # None =>
             \A f \in DOMAIN flags_ret[1] :
                flags_ret[1][f] # None => flags_ret[1][f][1].vk = f.kind

\* C19 witness: flags() was called on a result with a non-boolean flag and a
\* boolean flag, each with a value of its kind.
KindConsistencyWitness ==
    /\ flags_ret # None
    /\ \E i, j \in FlagPositions :
          /\ items[i].f.kind \in {"Uint", "Int"} /\ ValueFollows(i)
          /\ items[j].f.kind = "Bool" /\ ValueFollows(j)
          /\ flags_ret[1][items[i].f] = Some(items[i + 1].v)
          /\ flags_ret[1][items[j].f] = Some(items[j + 1].v)

\* C20: a non-boolean flag that occurs with a value and occurs again as the
\* final token maps to None; a boolean flag that occurs followed by false and
\* occurs later again without a value maps to Bool(true).
LastOccurrenceOnly ==
    flags_ret # None =>
       \A f \in DeclaredFlags :
          /\ /\ f.kind # "Bool"
             /\ \E i \in Occurrences(f) : ValueFollows(i)
             /\ Len(items) \in Occurrences(f)
             => flags_ret[1][f] = None
          /\ /\ f.kind = "Bool"
             /\ \E i \in Occurrences(f) :
                   ValueFollows(i) /\ items[i + 1].v = ValueBool(FALSE)
             /\ ~ValueFollows(LastOccurrence(f))
             => flags_ret[1][f] = Some(ValueBool(TRUE))

\* C20 witness: flags() was called after a non-boolean flag occurred with a
\* value and then again as the final token.
LastOccurrenceOnlyWitness ==
    /\ flags_ret # None
    /\ \E f \in DeclaredFlags :
          /\ f.kind # "Bool"
          /\ \E i \in Occurrences(f) : ValueFollows(i)
          /\ Len(items) \in Occurrences(f)
          /\ flags_ret[1][f] = None

\* No flag claims the i-th token: it is the first token or the item before
\* it is a command or a value, it is no declared command and has no leading
\* dash.
UnclaimedAt(i) ==
    /\ i = 1 \/ items[i - 1].tag \in {"Command", "Value"}
    /\ ~IsCommandName(args[i])
    /\ ~starts_with(args[i], <<"-">>)

\* C14: a token no flag claims is classified as the value String(token) and
\* never makes parse fail; flags() attributes no such value to a flag: every
\* Some(v) of its map is the value item right after the last flag item of the
\* key, or the Bool(true) of a boolean flag with no value item after it.
UnclaimedBareToken ==
    /\ \A i \in Positions :
          UnclaimedAt(i) => Outcome(i) = Ok(ItemValue(ValueString(args[i])))
    /\ flags_ret # None =>
          \A f \in DOMAIN flags_ret[1] :
             flags_ret[1][f] # None =>
                /\ Occurrences(f) # {}
                /\ LET l == LastOccurrence(f)
                   IN IF ValueFollows(l)
                      THEN flags_ret[1][f] = Some(items[l + 1].v) /\ ~UnclaimedAt(l + 1)
                      ELSE flags_ret[1][f] = Some(ValueBool(TRUE))

\* C14 witness: flags() was called on a result in which an unclaimed token
\* follows the value of a flag and differs from it.
UnclaimedBareTokenWitness ==
    /\ flags_ret # None
    /\ \E i \in Positions :
          /\ i > 2
          /\ UnclaimedAt(i)
          /\ items[i - 2].tag = "Flag"
          /\ items[i - 1].tag = "Value"
          /\ items[i] = ItemValue(ValueString(args[i]))
          /\ items[i].v # items[i - 1].v
          /\ flags_ret[1][items[i - 2].f] = Some(items[i - 1].v)

(***************************************************************************)
(* C13: parse stops at the first token that fails.                         *)
(***************************************************************************)
\* The item parse holds in prev when it reads the i-th token.
PrevAt(i) == IF i = 1 THEN ItemValue(ValueBool(FALSE)) ELSE items[i - 1]

\* What classification and coercion make of the i-th token, read after the
\* items before it.
ClassifiedAt(i) == classify(flags, commands, PrevAt(i), args[i])

\* The state of a fail-fast parse: every item is what its token classifies
\* to; parse is in error exactly when the last token consumed fails, with
\* that token's error, every token before it having succeeded, and then no
\* ParsedArgs exists for an accessor to be called on; otherwise every token
\* consumed has its item.
FailFastState ==
    /\ \A i \in 1..Len(items) : ClassifiedAt(i) = Ok(items[i])
    /\ result.st = "err" <=>
          /\ Len(args) = Len(items) + 1
          /\ ~ClassifiedAt(Len(args)).ok
    /\ result.st = "err" =>
          /\ ClassifiedAt(Len(args)) = Err(result.err)
          /\ flags_ret = None
          /\ commands_ret = None
    /\ result.st # "err" => Len(items) = Len(args) /\ result.err = NoError

\* C13: parse returns an error if and only if a token fails classification
\* or coercion, the error is that of the leftmost failing token, and once it
\* has failed no further token is consumed or classified and nothing else
\* happens: no result is produced and no accessor runs.
FailFast == []FailFastState /\ [][result.st # "err"]_vars

\* C13 witness: parse failed at a token that follows tokens it classified.
FailFastWitness ==
    /\ result.st = "err"
    /\ Len(items) >= 2
    /\ Len(args) = Len(items) + 1
    /\ result.err.arg = args[Len(args)]

(***************************************************************************)
(* C15: the order of declaration.                                          *)
(***************************************************************************)
\* The flags with no flag item among the items its.
AbsentIn(its) == {f \in DeclaredFlags : \A i \in 1..Len(its) : its[i] # ItemFlag(f)}

\* C15: for the same flags declared in another order and the same input,
\* the map of flags() has the same keys under both orders, and under each
\* order every declared flag that does not occur maps to None.
OrderIndependence ==
    flags_ret # None =>
       \A fl2 \in Orders(flags) :
          LET r2 == parse(fl2, commands, args)
          IN r2.ok =>
                LET m1 == flags_ret[1]
                    m2 == ParsedArgs_flags(fl2, r2.val)
                IN /\ DOMAIN m1 = DOMAIN m2
                   /\ \A f \in AbsentIn(items) : f \in DOMAIN m1 /\ m1[f] = None
                   /\ \A f \in AbsentIn(r2.val) : f \in DOMAIN m2 /\ m2[f] = None

\* C15 witness: flags() was called on a result that another order of the
\* same flags classifies differently, with a flag that occurs under neither
\* order.
OrderIndependenceWitness ==
    /\ flags_ret # None
    /\ \E fl2 \in Orders(flags) :
          LET r2 == parse(fl2, commands, args)
          IN /\ fl2 # flags
             /\ r2.ok
             /\ r2.val # items
             /\ AbsentIn(items) \cap AbsentIn(r2.val) # {}
             /\ DOMAIN ParsedArgs_flags(fl2, r2.val) = DOMAIN flags_ret[1]

(***************************************************************************)
(* The yes/no prompts of prompt.rs.                                        *)
(***************************************************************************)
\* The longest answer typed, in characters, the newline not counted.
MaxLine == 3

\* The newline read_line leaves at the end of a line.
NL == "\n"

\* The characters typed.
TypedChars == {"y", "Y", "e", "s", "n", "N", "o"}

\* char::to_lowercase on the characters typed.
char_to_lowercase(c) ==
    IF c = "Y" THEN "y" ELSE IF c = "N" THEN "n" ELSE c

\* str::to_lowercase
to_lowercase(str) == [k \in 1..Len(str) |-> char_to_lowercase(str[k])]

\* <Yes as PromptItem>::parse_input(input): the match on the lowercased line.
Yes_parse_input(input) ==
    IF to_lowercase(input) \in {<<"n", NL>>, <<"n", "o", NL>>} THEN "No" ELSE "Yes"

\* <No as PromptItem>::parse_input(input): the match on the lowercased line.
No_parse_input(input) ==
    IF to_lowercase(input) \in {<<"y">>, <<"y", "e", "s">>} THEN "Yes" ELSE "No"

\* Self::parse_input(input) for the prompt of the kind.
parse_input(kind, input) ==
    IF kind = "Yes" THEN Yes_parse_input(input) ELSE No_parse_input(input)

\* What is typed before the end of the line.
Typed == UNION {[1..n -> TypedChars] : n \in 0..MaxLine}

\* What read_line puts in input: what was typed, with the newline, or
\* without it when the input ends there.
Lines == Typed \cup {Append(w, NL) : w \in Typed}

\* A prompt of one of the two kinds is about to be shown.
InitPrompt ==
    /\ ArgsParser_new(VocabNoFlags)
    /\ main = NoMain
    /\ prompt \in {[kind |-> k, input |-> None, answer |-> ""] : k \in {"Yes", "No"}}

\* PromptItem::from_prompt: the prompt is printed, a line is read and
\* parse_input makes the answer of it.
from_prompt ==
    /\ prompt.answer = ""
    /\ \E line \in Lines :
          prompt' = [prompt EXCEPT !.input = Some(line),
                                   !.answer = parse_input(prompt.kind, line)]
    /\ UNCHANGED <<parser_vars, main>>

\* PromptItem::from_prompt when flushing stdout or reading stdin fails:
\* Err(Error), nothing parsed.
from_prompt_io_error ==
    /\ prompt.answer = ""
    /\ prompt' = [prompt EXCEPT !.answer = "Error"]
    /\ UNCHANGED <<parser_vars, main>>

NextPrompt == from_prompt \/ from_prompt_io_error

SpecPrompt == InitPrompt /\ [][NextPrompt]_vars

(***************************************************************************)
(* C16, C18: main() after parse.                                           *)
(***************************************************************************)
\* main has printed the help block and nothing else, returned Ok(()), and
\* has chosen no command and run no handler.
HelpShown ==
    /\ main.pc = "done"
    /\ main.out = <<"help">>
    /\ main.ret = "Ok"
    /\ main.command = None
    /\ main.handler = ""

\* C16: after every parse failure, MalformedArgument or BadFlag, main
\* prints the help block and returns success, and no command handler is
\* run: until then main has done nothing, and it gets there.
ParseFailureShowsHelp ==
    /\ [](result.st = "err" => main = InitMainRun \/ HelpShown)
    /\ (result.st = "err") ~> HelpShown

\* C16 witness: main returned after a parse that failed with BadFlag at a
\* token that follows a command.
ParseFailureShowsHelpWitness ==
    /\ result.st = "err"
    /\ result.err.e = "BadFlag"
    /\ Len(items) >= 1
    /\ items[Len(items)].tag = "Command"
    /\ HelpShown

\* C18: after a successful parse main selects a command only from a
\* non-empty command list: with more than one command it prints the
\* singular-commands message and returns success without selecting, and it
\* never indexes an empty list.
MainSelectsFromNonEmpty ==
    result.st = "ok" /\ commands_ret # None =>
       LET cmds == commands_ret[1]
       IN /\ Len(cmds) > 1 =>
                /\ main.pc = "done" /\ main.out = <<"singular">> /\ main.ret = "Ok"
                /\ main.command = None /\ main.handler = ""
          /\ main.command # None => Len(cmds) >= 1 /\ main.command = Some(cmds[1])
          /\ Len(cmds) = 0 => main.pc # "panic"

(***************************************************************************)
(* C17: the answers of the prompts.                                        *)
(***************************************************************************)
\* The line without the newline at its end, in lower case.
Answer ==
    LET l == prompt.input[1]
    IN to_lowercase(IF l # <<>> /\ l[Len(l)] = NL THEN SubSeq(l, 1, Len(l) - 1) ELSE l)

\* parse_input has run on a line.
Parsed == prompt.input # None

\* C17: the default-no prompt answers Yes exactly for the lines y and yes,
\* in any letter case, with or without the newline at the end, and No for
\* every other line; the default-yes prompt answers No exactly for the lines
\* n and no and Yes otherwise; parse_input never returns an error.
PromptAnswers ==
    Parsed =>
       /\ prompt.answer \in {"Yes", "No"}
       /\ prompt.kind = "No" =>
             (prompt.answer = "Yes" <=> Answer \in {<<"y">>, <<"y", "e", "s">>})
       /\ prompt.kind = "Yes" =>
             (prompt.answer = "No" <=> Answer \in {<<"n">>, <<"n", "o">>})

(***************************************************************************)
(* C21: flags that share a name.                                           *)
(***************************************************************************)
\* The names declared by two flags of different kinds.
CollidingNames ==
    {n \in DeclaredNames :
        \E f, g \in DeclaredFlags : f.name = n /\ g.name = n /\ f.kind # g.kind}

\* t is a flag token of the name n: --n, or -n when n is one character.
IsFlagTokenOf(t, n) == t = Dash2(n) \/ (Len(n) = 1 /\ t = Dash1(n))

\* Where flag resolution applies, every flag token of a name declared by
\* flags of different kinds is the flag item of the flag declared first.
CollisionResolvesToFirst ==
    \A i \in Positions :
       FlagResolutionAt(i) =>
          \A n \in CollidingNames :
             IsFlagTokenOf(args[i], n) => Outcome(i) = Ok(ItemFlag(FirstDeclared(n)))

\* In the map of flags() every flag declared after another of its name is a
\* key and maps to None; a flag declared twice is one key.
CollisionKeys ==
    flags_ret # None =>
       /\ \A f \in DeclaredFlags :
             f # FirstDeclared(f.name) => f \in DOMAIN flags_ret[1] /\ flags_ret[1][f] = None
       /\ DOMAIN flags_ret[1] = DeclaredFlags
       /\ (\E j, k \in 1..Len(flags) : j < k /\ flags[j] = flags[k])
             => Cardinality(DOMAIN flags_ret[1]) < Len(flags)

\* C21: when two flags of different kinds are declared with the same name,
\* every flag token with that name resolves to the one declared first, the
\* flag declared later is still a key of flags() and maps to None after
\* every input, and the identical flag declared twice yields a single key.
NameCollision == CollisionResolvesToFirst /\ CollisionKeys

====
